---- MODULE Spec2Model ----
(***************************************************************************)
(* Job Hunter AI Agent: the six-node LangGraph pipeline                    *)
(*   job_discovery -> relevance_scoring -> resume_optimization ->          *)
(*   cover_letter_generation -> application_tracker ->                     *)
(*   telegram_notifications -> END                                         *)
(* with the relevance scorer modelled on the characters of the posting     *)
(* texts.                                                                  *)
(*                                                                         *)
(* Units.  Component scores are Python floats with at most two decimals;   *)
(* they are kept here as integers in hundredths of a point (40.0 -> 4000). *)
(* A cosine similarity is an integer in ten-thousandths (0.5 -> 5000).     *)
(* relevance_score has one decimal and is kept in tenths (73.0 -> 730).    *)
(* round() is round-half-to-even on the exact decimal value.               *)
(***************************************************************************)
EXTENDS Integers, Sequences, FiniteSets, TLC

(***************************************************************************)
(* Strings: str.lower(), the `in` substring test, list helpers.            *)
(***************************************************************************)
lower_char(c) ==
    CASE c = "A" -> "a" [] c = "B" -> "b" [] c = "C" -> "c" [] c = "D" -> "d"
      [] c = "E" -> "e" [] c = "F" -> "f" [] c = "G" -> "g" [] c = "H" -> "h"
      [] c = "I" -> "i" [] c = "J" -> "j" [] c = "K" -> "k" [] c = "L" -> "l"
      [] c = "M" -> "m" [] c = "N" -> "n" [] c = "O" -> "o" [] c = "P" -> "p"
      [] c = "Q" -> "q" [] c = "R" -> "r" [] c = "S" -> "s" [] c = "T" -> "t"
      [] c = "U" -> "u" [] c = "V" -> "v" [] c = "W" -> "w" [] c = "X" -> "x"
      [] c = "Y" -> "y" [] c = "Z" -> "z" [] OTHER -> c

RECURSIVE lower_range(_, _, _)
\* the characters i..j of s in lower case (split in halves)
lower_range(s, i, j) ==
    IF i > j THEN ""
    ELSE IF i = j THEN lower_char(SubSeq(s, i, i))
    ELSE LET m == (i + j) \div 2
         IN  lower_range(s, i, m) \o lower_range(s, m + 1, j)

\* str.lower()
lower(s) == lower_range(s, 1, Len(s))

\* kw in text
contains(text, kw) ==
    \E i \in 1..(Len(text) - Len(kw) + 1) : SubSeq(text, i, i + Len(kw) - 1) = kw

RECURSIVE join(_, _)
\* sep.join(list)
join(sep, list) ==
    IF list = <<>> THEN ""
    ELSE IF Len(list) = 1 THEN list[1]
    ELSE list[1] \o sep \o join(sep, Tail(list))

\* [s.lower() for s in list]
lower_all(list) == [i \in 1..Len(list) |-> lower(list[i])]

\* sum(1 for x in list if P(x))
count_where(list, P(_)) == Cardinality({i \in 1..Len(list) : P(list[i])})

min(a, b) == IF a <= b THEN a ELSE b

\* round(n / d) for d > 0, ties to the even neighbour
round_div(n, d) ==
    LET q == n \div d
        r == n % d
    IN  IF 2 * r < d THEN q
        ELSE IF 2 * r > d THEN q + 1
        ELSE IF q % 2 = 0 THEN q ELSE q + 1

(***************************************************************************)
(* config/settings.py                                                      *)
(***************************************************************************)
CANDIDATE_SKILLS ==
    << <<"Python", "C++", "Java", "JavaScript", "HTML/CSS">>,
       <<"Flask", "Node.js", "React", "Streamlit", "PyTorch">>,
       <<"PyTorch", "Hugging Face", "scikit-learn", "BERT", "LLaMA">>,
       <<"LangChain", "LangGraph", "RAG", "Text Embeddings",
         "Prompt Engineering", "LoRA", "QLoRA", "LLMs",
         "Fine-tuning", "FAISS", "Chroma", "Vector Databases",
         "OpenAI API", "GPT-4o", "GPT-4o-mini">>,
       <<"LangGraph", "LangChain", "Multi-Agent Systems",
         "Autonomous Agents", "Tool Calling", "Multi-step Reasoning",
         "Agent Orchestration", "State Machines", "6-node Pipeline">>,
       <<"DVC", "Dagster", "Astronomer", "Apache Airflow",
         "AWS", "S3", "EC2", "SageMaker", "Docker",
         "MLflow", "CI/CD Pipelines", "Model Versioning", "Data Pipelines">>,
       <<"BeautifulSoup", "Requests", "Selenium",
         "LinkedIn Scraping", "Indeed Scraping", "Web Scraping">>,
       <<"Telegram Bot API", "Google Sheets API", "Notion API",
         "OpenAI API", "REST APIs">>,
       <<"MySQL", "PostgreSQL", "MongoDB">>,
       <<"Pandas", "NumPy", "Matplotlib", "Seaborn">>,
       <<"Git", "GitHub", "Linux", "LeetCode",
         "Groq Cloud", "Gradio", "Whisper", "gTTS",
         "Sentence Transformers">> >>

RECURSIVE flatten(_)
flatten(groups) ==
    IF groups = <<>> THEN <<>> ELSE Head(groups) \o flatten(Tail(groups))

ALL_SKILLS == flatten(CANDIDATE_SKILLS)

MIN_RELEVANCE_SCORE == 60

SEARCH_QUERIES ==
    <<"Machine Learning Intern", "GenAI Intern", "LLM Engineer fresher",
      "AI Agent Developer entry level", "Generative AI intern",
      "Deep Learning intern", "NLP engineer fresher", "AI Research intern",
      "MLOps intern", "LangChain developer fresher">>

PREFERRED_COMPANY_KEYWORDS ==
    <<"AI", "ML", "GenAI", "LLM", "Generative", "Agentic",
      "NLP", "Computer Vision", "Deep Learning", "SaaS", "startup">>

BLACKLIST_KEYWORDS ==
    <<"senior", "lead", "principal", "staff", "director",
      "5+ years", "7+ years", "10+ years", "3+ years",
      "2+ years mandatory">>

(***************************************************************************)
(* nodes/relevance_scoring.py: the scoring components.  A job is a record  *)
(* with the JobListing fields.                                             *)
(***************************************************************************)
any_kw_in(kws, text) == \E i \in 1..Len(kws) : contains(text, kws[i])

\* the overlap counting a required skill that is part of a candidate skill
_skill_overlap_score_substring(job) ==
    IF job.required_skills = <<>> THEN 2000
    ELSE LET candidate_lower == lower_all(ALL_SKILLS)
             in_candidate(skill) ==
                 \E k \in 1..Len(candidate_lower) :
                     contains(candidate_lower[k], lower(skill))
             matched == count_where(job.required_skills, in_candidate)
         IN  round_div(matched * 40 * 100, Len(job.required_skills))

\* Component 1: share of the required skills the candidate has, 0-40
_skill_overlap_score(job) ==
    IF job.required_skills = <<>> THEN 2000
    ELSE LET candidate_lower == lower_all(ALL_SKILLS)
             in_candidate(skill) ==
                 \E k \in 1..Len(candidate_lower) : candidate_lower[k] = lower(skill)
             matched == count_where(job.required_skills, in_candidate)
         IN  round_div(matched * 40 * 100, Len(job.required_skills))

\* the tiers tested from the lowest credit up: the lowest matching tier wins
_experience_match_score_lowest_first(job) ==
    LET exp_text == lower(job.experience_required)
        description == lower(job.description)
        combined == exp_text \o " " \o description
    IN  IF any_kw_in(<<"3+", "4+", "5+", "senior", "lead">>, combined)
            THEN 0
        ELSE IF any_kw_in(<<"2+ year", "2-3 year">>, combined)
            THEN 800
        ELSE IF any_kw_in(<<"1-2 year", "1+ year", "junior">>, combined)
            THEN 1800
        ELSE IF any_kw_in(<<"intern", "fresher", "0-1", "entry", "graduate", "trainee">>, combined)
            THEN 2500
        ELSE 1500

\* Component 2: experience tier, first matching tier wins, 0-25
_experience_match_score(job) ==
    LET exp_text == lower(job.experience_required)
        description == lower(job.description)
        combined == exp_text \o " " \o description
    IN  IF any_kw_in(<<"intern", "fresher", "0-1", "entry", "graduate", "trainee">>, combined)
            THEN 2500
        ELSE IF any_kw_in(<<"1-2 year", "1+ year", "junior">>, combined)
            THEN 1800
        ELSE IF any_kw_in(<<"2+ year", "2-3 year">>, combined)
            THEN 800
        ELSE IF any_kw_in(<<"3+", "4+", "5+", "senior", "lead">>, combined)
            THEN 0
        ELSE 1500

priority_tech ==
    <<"langchain", "langgraph", "llm", "rag", "pytorch", "transformers",
      "huggingface", "openai", "generative", "agent", "vector", "fine-tun",
      "mistral", "llama", "gpt", "embedding", "langsmith">>

\* _tech_stack_score looking at the description only
_tech_stack_score_description_only(job) ==
    LET all_text == lower(job.description)
        in_text(tech) == contains(all_text, tech)
        matches == count_where(priority_tech, in_text)
    IN  min(matches * 3, 25) * 100

\* Component 3: priority terms found in description + skills, 3 each, cap 25
_tech_stack_score(job) ==
    LET desc_lower == lower(job.description)
        skill_lower == lower_all(job.required_skills \o job.preferred_skills)
        all_text == desc_lower \o join(" ", skill_lower)
        in_text(tech) == contains(all_text, tech)
        matches == count_where(priority_tech, in_text)
    IN  min(matches * 3, 25) * 100

\* _company_preference_score without the cap
_company_preference_score_uncapped(job) ==
    LET combined == lower(job.company) \o " " \o lower(job.description)
        in_combined(kw) == contains(combined, lower(kw))
    IN  count_where(PREFERRED_COMPANY_KEYWORDS, in_combined) * 2 * 100

\* Component 4: preferred-company keywords in company + description, 2 each, cap 10
_company_preference_score(job) ==
    LET company_lower == lower(job.company)
        desc_lower == lower(job.description)
        combined == company_lower \o " " \o desc_lower
        in_combined(kw) == contains(combined, lower(kw))
        matches == count_where(PREFERRED_COMPANY_KEYWORDS, in_combined)
    IN  min(matches * 2, 10) * 100

\* _is_disqualified without the .lower() on the posting text
_is_disqualified_cased(job) ==
    LET combined == job.title \o " " \o job.description \o " "
                        \o job.experience_required
    IN  \E i \in 1..Len(BLACKLIST_KEYWORDS) :
            contains(combined, lower(BLACKLIST_KEYWORDS[i]))

\* Hard disqualification check
_is_disqualified(job) ==
    LET combined == lower(job.title \o " " \o job.description \o " "
                          \o job.experience_required)
    IN  \E i \in 1..Len(BLACKLIST_KEYWORDS) :
            contains(combined, lower(BLACKLIST_KEYWORDS[i]))

\* The answer of the embedding collaborator for one posting: a call raises,
\* or the two vectors have the cosine similarity sim (in ten-thousandths).
Raises == [raises |-> TRUE, sim |-> 0]

Similarity(sim) == [raises |-> FALSE, sim |-> sim]

\* round(sim * 10, 2), or the default bonus 5.0 when anything raises
_semantic_similarity(answer) ==
    IF answer.raises THEN 500 ELSE round_div(answer.sim, 10)

\* base_score = s1 + s2 + s3 + s4
base_score(job) ==
    _skill_overlap_score(job) + _experience_match_score(job)
        + _tech_stack_score(job) + _company_preference_score(job)

\* semantic_bonus falling back to the default bonus without a model too
semantic_bonus_defaulted(loaded, answer) ==
    IF loaded THEN _semantic_similarity(answer) ELSE _semantic_similarity(Raises)

\* semantic_bonus = 0.0; if embeddings_model: semantic_bonus = _semantic_similarity(...)
semantic_bonus(loaded, answer) ==
    IF loaded THEN _semantic_similarity(answer) ELSE 0

\* final_score = min(base_score + semantic_bonus * 0.1, 100), in thousandths
final_score(base, bonus) == min(base * 10 + bonus, 100 * 1000)

\* job.relevance_score = round(final_score, 1), in tenths
rounded_score(base, bonus) == round_div(final_score(base, bonus), 100)

(***************************************************************************)
(* nodes/job_discovery.py: what one scraped card becomes.  A card is what  *)
(* a source's result page shows for one posting: source, title, company    *)
(* and location text.  Cards are the ones that pass _within_days and carry *)
(* a link.                                                                 *)
(***************************************************************************)
\* hashlib.md5(f"{title}{company}".encode()).hexdigest()[:10]; the digest is
\* kept as the string it hashes (no two catalogue strings collide in md5)
_job_id(title, company) == title \o company

\* the scrapers' blacklist test on the title
_is_blacklisted(text) ==
    \E i \in 1..Len(BLACKLIST_KEYWORDS) :
        contains(lower(text), lower(BLACKLIST_KEYWORDS[i]))

\* the dict of a scraper that hashes the source into the identifier
raw_job_keyed_by_source(card, work_mode, description, experience_required) ==
    [ job_id              |-> _job_id(card.title, card.company \o card.source),
      title               |-> card.title,
      company             |-> card.company,
      location            |-> card.location,
      work_mode           |-> work_mode,
      description         |-> description,
      required_skills     |-> <<>>,
      preferred_skills    |-> <<>>,
      experience_required |-> experience_required,
      source              |-> card.source,
      valid               |-> TRUE ]

\* the dict every scraper appends for a card
raw_job(card, work_mode, description, experience_required) ==
    [ job_id              |-> _job_id(card.title, card.company),
      title               |-> card.title,
      company             |-> card.company,
      location            |-> card.location,
      work_mode           |-> work_mode,
      description         |-> description,
      required_skills     |-> <<>>,
      preferred_skills    |-> <<>>,
      experience_required |-> experience_required,
      source              |-> card.source,
      valid               |-> TRUE ]

\* the dict scrape_internshala appends (no duration and no stipend element)
scrape_internshala(card) ==
    raw_job(card,
            IF contains(lower(card.location), "remote") THEN "Remote" ELSE "Onsite",
            card.title \o " at " \o card.company
                \o ". Duration: N/A. Stipend: N/A",
            "Fresher / Intern")

\* the dict scrape_indeed appends
scrape_indeed(card) ==
    raw_job(card,
            IF contains(lower(card.location), "remote") THEN "Remote" ELSE "Onsite",
            card.title \o " at " \o card.company \o ". Location: " \o card.location,
            "Entry Level")

\* the dict scrape_wellfound appends
scrape_wellfound(card) ==
    raw_job(card,
            IF contains(lower(card.location), "remote") THEN "Remote" ELSE "Hybrid",
            card.title \o " at " \o card.company,
            "Entry Level / Intern")

\* the dict scrape_linkedin appends
scrape_linkedin(card) ==
    raw_job(card,
            IF contains(lower(card.location), "remote") THEN "Remote"
            ELSE IF contains(lower(card.location), "hybrid") THEN "Hybrid"
            ELSE "Onsite",
            card.title \o " at " \o card.company \o ". Location: " \o card.location,
            "Entry Level / Intern")

scrape(card) ==
    CASE card.source = "internshala" -> scrape_internshala(card)
      [] card.source = "indeed"      -> scrape_indeed(card)
      [] card.source = "wellfound"   -> scrape_wellfound(card)
      [] card.source = "linkedin"    -> scrape_linkedin(card)

\* An answer of the LLM to the enrichment prompt:
\*   kind "none"  the call raised or the text was not JSON
\*   kind "json"  a JSON object with the three keys
\*   kind "null"  a JSON object whose required_skills is null
\* The enrichment is skipped for descriptions shorter than 50 characters.
enrich_job_description(job, answer) ==
    IF Len(job.description) < 50 THEN job
    ELSE CASE answer.kind = "none" -> job
           [] answer.kind = "json" ->
                [job EXCEPT !.required_skills = answer.required_skills,
                            !.preferred_skills = answer.preferred_skills,
                            !.experience_required = answer.experience_required]
           [] answer.kind = "null" ->
                [job EXCEPT !.valid = FALSE]

(***************************************************************************)
(* The catalogue: the cards the sources can show and the answers the LLM   *)
(* can give for each.  A listing (card, answer) is one posting object; the *)
(* run context holds listings by their index, which plays the part of the  *)
(* Python object identity (scored_jobs and selected_jobs alias the objects *)
(* of filtered_jobs).                                                      *)
(***************************************************************************)
CatalogueCards ==
    << [source |-> "indeed",      title |-> "LangChain RAG Intern",
        company |-> "Acme AI",    location |-> "Bengaluru"],
       [source |-> "linkedin",    title |-> "LangChain RAG Intern",
        company |-> "Acme AI",    location |-> "Remote"],
       [source |-> "indeed",      title |-> "Data Analyst",
        company |-> "Foobar Consulting Group", location |-> "Pune"],
       [source |-> "wellfound",   title |-> "GenAI LLM Agent Engineer",
        company |-> "Leadway Generative AI Startup", location |-> "Remote"],
       [source |-> "linkedin",    title |-> "GenAI Intern",
        company |-> "Nimbus Deep Learning Labs", location |-> "Hyderabad"],
       [source |-> "wellfound",   title |-> "Generative AI Agent Intern",
        company |-> "GenAI NLP SaaS Startup ML Works", location |-> "Remote"],
       [source |-> "wellfound",   title |-> "LLM RAG Agent Intern",
        company |-> "Orbit NLP Startup", location |-> "Hybrid"],
       [source |-> "internshala", title |-> "GPT RAG Agent Intern",
        company |-> "Vega ML SaaS Startup", location |-> "Delhi"],
       [source |-> "indeed",      title |-> "Senior ML Engineer",
        company |-> "Acme AI",    location |-> "Pune"] >>

\* cards shown per result page on a day the boards are busy
PageSize == 7

Digit(d) == SubSeq("0123456789", d + 1, d + 1)

TwoDigits(n) == Digit(n \div 10) \o Digit(n % 10)

\* the result pages of a busy day: the LinkedIn page of the q-th query of
\* SEARCH_QUERIES shows the cards (q - 1) * PageSize + 1 .. q * PageSize of
\* this list, each titled like the query
QueryCards ==
    [i \in 1..(Len(SEARCH_QUERIES) * PageSize) |->
        [source   |-> "linkedin",
         title    |-> SEARCH_QUERIES[((i - 1) \div PageSize) + 1],
         company  |-> "LLM RAG Agent NLP Startup " \o TwoDigits(i),
         location |-> "India"]]

Cards == CatalogueCards \o QueryCards

NoAnswer == [kind |-> "none"]

NullAnswer == [kind |-> "null"]

JsonAnswer(required, preferred, experience) ==
    [kind |-> "json", required_skills |-> required,
     preferred_skills |-> preferred, experience_required |-> experience]

CatalogueListings ==
    << [card |-> 1, answer |-> NoAnswer],
       [card |-> 1, answer |-> JsonAnswer(<<"Python", "PyTorch">>, <<>>,
                                 "Machine Learning Intern, fresher welcome")],
       [card |-> 2, answer |-> NoAnswer],
       [card |-> 3, answer |-> JsonAnswer(<<"COBOL">>, <<>>, "4+ years")],
       [card |-> 3, answer |-> NullAnswer],
       [card |-> 4, answer |-> JsonAnswer(<<"Python", "LangChain">>, <<>>, "Fresher")],
       [card |-> 5, answer |-> JsonAnswer(<<"Python", "PyTorch">>, <<"LangChain">>,
                                 "3+ Years preferred")],
       [card |-> 5, answer |-> JsonAnswer(<<"Python", "PyTorch", "Rust">>,
                                 <<"LangChain">>, "Graduate")],
       [card |-> 6, answer |-> NoAnswer],
       [card |-> 6, answer |-> JsonAnswer(
                                 <<"LangChain", "LangGraph", "RAG", "PyTorch", "LLMs",
                                   "Fine-tuning", "OpenAI API", "GPT-4o",
                                   "Vector Databases", "Text Embeddings">>,
                                 <<>>, "Intern")],
       [card |-> 7, answer |-> NoAnswer],
       [card |-> 8, answer |-> NoAnswer] >>

\* the cards of the busy pages are kept as scraped
Listings ==
    CatalogueListings
        \o [i \in 1..Len(QueryCards) |->
               [card |-> Len(CatalogueCards) + i, answer |-> NoAnswer]]

Handles == 1..Len(Listings)

\* the posting object of a listing, as job_discovery_node builds it
JobOf == [h \in Handles |->
            enrich_job_description(scrape(Cards[Listings[h].card]), Listings[h].answer)]

(***************************************************************************)
(* Tables of the scorer's verdicts per listing.  A posting's text fields   *)
(* are never written after discovery, so the verdicts are fixed per        *)
(* listing.                                                                *)
(***************************************************************************)
Disqualified == [h \in Handles |-> _is_disqualified(JobOf[h])]

Components ==
    [h \in Handles |->
        [s1 |-> _skill_overlap_score(JobOf[h]),
         s2 |-> _experience_match_score(JobOf[h]),
         s3 |-> _tech_stack_score(JobOf[h]),
         s4 |-> _company_preference_score(JobOf[h])]]

BaseScore == [h \in Handles |-> base_score(JobOf[h])]

(***************************************************************************)
(* Bounds of the model                                                     *)
(***************************************************************************)
\* postings yielded by all sources over all queries of one run
MaxYield == 2

\* all_raw_jobs[:40]
EnrichLimit == 40

\* queries[:6]
QueryLimit == 6

\* selected_jobs[:5]
DetailLimit == 5

\* what the embedding collaborator can answer for a posting: an exception,
\* or vectors of cosine similarity -0.1 or 1.0
SimOutcomes == {Raises, Similarity(-1000), Similarity(10000)}

(***************************************************************************)
(* State: the AgentState fields, the posting objects' mutable field, the   *)
(* node the graph is at, and what the run's collaborators have answered.   *)
(***************************************************************************)
VARIABLES
    pc,                  \* node about to run, "END", or "aborted"
    stages,              \* nodes entered so far, in order
    raw_jobs,            \* state["raw_jobs"]
    filtered_jobs,       \* state["filtered_jobs"]
    scored_jobs,         \* state["scored_jobs"]
    selected_jobs,       \* state["selected_jobs"]
    relevance_score,     \* job.relevance_score of every posting object
    resume_versions,     \* state["resume_versions"]
    cover_letters,       \* state["cover_letters"]
    application_records, \* state["application_records"]
    tracker_export_path, \* state["tracker_export_path"]
    run_summary,         \* state["run_summary"]
    errors,              \* state["errors"]
    sent,                \* what was handed to Telegram, in order
    telegram,            \* the notifier as the notifier node found it
    embeddings,          \* the embedding collaborator of this run: whether
                         \* get_embeddings can load a model, and what the
                         \* model answered for each posting scored
    tailoring,           \* what happened per selected posting in node 3
    letters,             \* what happened per selected posting in node 4
    scoring_runs,        \* times relevance_scoring_node has run
    llm,                 \* whether get_llm can build a model in this run
    yielded,             \* job_discovery_node's local: the cards the scrapers
                         \* yielded, in order (gone once the next node runs)
    sink_config,         \* which remote tracker sinks are configured, and up
    csv_file,            \* output/application_tracker.csv
    sheet_rows,          \* the "Applications" worksheet
    notion_pages,        \* the pages of the Notion database
    scoring_job,         \* the posting the scoring loop is at: <<job>>, or <<>>
    component_scores,    \* the loop's s1..s4 for that posting: <<scores>>, or <<>>
    attempts,            \* _safe_get: what requests.get did in each attempt of
                         \* the call, in order
    resp,                \* _safe_get: "running", or what the call returned
    scraper,             \* the source whose scraper runs, as an index
    search_queries,      \* state["search_queries"]
    boards               \* what the job boards show in this run: "quiet", a
                         \* few cards of the catalogue; "busy", a page of
                         \* cards for every query

vars == <<pc, stages, raw_jobs, filtered_jobs, scored_jobs, selected_jobs,
          relevance_score, resume_versions, cover_letters, application_records,
          tracker_export_path, run_summary, errors, sent, telegram, embeddings,
          tailoring, letters, scoring_runs, llm, yielded, sink_config,
          csv_file, sheet_rows, notion_pages, scoring_job, component_scores,
          attempts, resp, scraper, search_queries, boards>>

\* what outlives a run: the files and remote stores of the tracker
sinks == <<csv_file, sheet_rows, notion_pages>>

\* the settings of a run, read from the environment at import, and the
\* world the run meets
environment == <<llm, sink_config, boards>>

\* the locals of the scoring loop
scorer_locals == <<scoring_job, component_scores>>

\* the state of a scraper's network call
fetch == <<attempts, resp, scraper>>

context == <<raw_jobs, filtered_jobs, scored_jobs, selected_jobs,
             resume_versions, cover_letters, application_records,
             tracker_export_path, run_summary, errors>>

\* get_embeddings raises: no OpenAI key and no sentence-transformers
NoEmbeddings == [loaded |-> FALSE, answers |-> <<>>]

\* get_embeddings returns a model; it has not been asked yet
EmbeddingsInstalled == [loaded |-> TRUE, answers |-> <<>>]

\* GOOGLE_SHEET_ID, NOTION_TOKEN and NOTION_DATABASE_ID default to ""
SinksNotConfigured == [sheets |-> "unconfigured", notion |-> "unconfigured"]

NoFile == [exists |-> FALSE, rows |-> <<>>]

\* get_llm returns a model, or raises RuntimeError("No LLM available...")
LlmStates == {"available", "none"}

\* initial_state of run_agent
initial_state ==
    /\ pc = "job_discovery"
    /\ stages = <<>>
    /\ raw_jobs = <<>>
    /\ filtered_jobs = <<>>
    /\ scored_jobs = <<>>
    /\ selected_jobs = <<>>
    /\ relevance_score = [h \in Handles |-> 0]
    /\ resume_versions = <<>>
    /\ cover_letters = <<>>
    /\ application_records = <<>>
    /\ tracker_export_path = ""
    /\ run_summary = [written |-> FALSE]
    /\ errors = <<>>
    /\ sent = <<>>
    /\ telegram = "not asked"
    /\ tailoring = <<>>
    /\ letters = <<>>
    /\ scoring_runs = 0
    /\ yielded = <<>>

\* no scoring loop and no scraper is being followed step by step
helpers_idle ==
    /\ search_queries = SEARCH_QUERIES
    /\ boards = "quiet"
    /\ scoring_job = <<>>
    /\ component_scores = <<>>
    /\ attempts = <<>>
    /\ resp = "idle"
    /\ scraper = 0

\* run_agent on a fresh checkout: no sink configured, nothing tracked yet
Init ==
    /\ initial_state
    /\ helpers_idle
    /\ llm \in LlmStates
    /\ embeddings \in {NoEmbeddings, EmbeddingsInstalled}
    /\ sink_config = SinksNotConfigured
    /\ csv_file = NoFile
    /\ sheet_rows = <<>>
    /\ notion_pages = <<>>

seqs_up_to(S, n) == UNION {[1..k -> S] : k \in 0..n}

in_seq(x, seq) == \E i \in 1..Len(seq) : seq[i] = x

index_of(x, seq) == CHOOSE i \in 1..Len(seq) : seq[i] = x

select(seq, P(_)) == SelectSeq(seq, P)

first_n(seq, n) == SubSeq(seq, 1, min(n, Len(seq)))

(***************************************************************************)
(* Node 1: job_discovery_node                                              *)
(***************************************************************************)
\* the cards a scraper turns into a dict: the title is not blacklisted
Scraped == {c \in 1..Len(Cards) : ~_is_blacklisted(Cards[c].title)}

card_job_id(c) == _job_id(Cards[c].title, Cards[c].company)

RECURSIVE dedupe_keeps_last(_, _)
\* the jobs collected in a dict keyed by job_id: a later card of a job_id
\* takes the place of the earlier one
dedupe_keeps_last(cards, seen_ids) ==
    IF cards = <<>> THEN <<>>
    ELSE IF \E i \in 2..Len(cards) : card_job_id(cards[i]) = card_job_id(Head(cards))
         THEN dedupe_keeps_last(Tail(cards), seen_ids)
         ELSE <<Head(cards)>> \o dedupe_keeps_last(Tail(cards), seen_ids)

RECURSIVE dedupe(_, _)
\* the seen_ids loop: the first card of every job_id, in yield order
dedupe(cards, seen_ids) ==
    IF cards = <<>> THEN <<>>
    ELSE IF card_job_id(Head(cards)) \in seen_ids
         THEN dedupe(Tail(cards), seen_ids)
         ELSE <<Head(cards)>>
                 \o dedupe(Tail(cards), seen_ids \cup {card_job_id(Head(cards))})

\* the listings card c can become at position i of all_raw_jobs: beyond the
\* enrichment limit, and for a description under 50 characters, the LLM is
\* not asked; with no LLM, call_llm raises and the dict stays as scraped
listings_of(c, i) ==
    {h \in Handles :
        /\ Listings[h].card = c
        /\ (i > EnrichLimit \/ Len(scrape(Cards[c]).description) < 50
               \/ llm = "none")
              => Listings[h].answer = NoAnswer}

RECURSIVE enrichments(_, _)
\* the lists all_raw_jobs can be after the enrichment loop, from position i
enrichments(all_raw_jobs, i) ==
    IF i > Len(all_raw_jobs) THEN {<<>>}
    ELSE {<<h>> \o rest : h \in listings_of(all_raw_jobs[i], i),
                          rest \in enrichments(all_raw_jobs, i + 1)}

\* the conversion taking every dict as it is
parses_unvalidated(h) == TRUE

\* JobListing(**job) raises for a dict that does not validate
parses(h) == JobOf[h].valid

\* the loop over every query of the run
searched_all(queries) == queries

\* for query in queries[:6]
searched(queries) == first_n(queries, QueryLimit)

\* the cards the busy page of query q shows when pages show k cards
page_of(q, k) ==
    LET n == index_of(q, SEARCH_QUERIES)
    IN  [j \in 1..k |-> Len(CatalogueCards) + (n - 1) * PageSize + j]

RECURSIVE pages_of(_, _)
\* the cards the scrapers yield over `queries`, query by query
pages_of(queries, k) ==
    IF queries = <<>> THEN <<>>
    ELSE page_of(Head(queries), k) \o pages_of(Tail(queries), k)

\* what the scrapers can yield over the queries searched
board_yields ==
    IF boards = "busy"
    THEN {pages_of(searched(search_queries), k) : k \in 0..PageSize}
    ELSE seqs_up_to(Scraped \cap (1..Len(CatalogueCards)), MaxYield)

job_discovery_node ==
    /\ pc = "job_discovery"
    /\ UNCHANGED <<scorer_locals, fetch, search_queries>>
    /\ \E cards \in board_yields :
         LET all_raw_jobs == dedupe(cards, {})
         IN  \E enriched \in enrichments(all_raw_jobs, 1) :
                /\ yielded' = cards
                /\ raw_jobs' = enriched
                /\ filtered_jobs' = select(first_n(enriched, EnrichLimit), parses)
    /\ pc' = "relevance_scoring"
    /\ stages' = Append(stages, "job_discovery")
    /\ UNCHANGED <<scored_jobs, selected_jobs, relevance_score, resume_versions,
                   cover_letters, application_records, tracker_export_path,
                   run_summary, errors, sent, embeddings, tailoring, letters,
                   scoring_runs>>
    /\ UNCHANGED <<environment, sinks, telegram>>

(***************************************************************************)
(* Node 2: relevance_scoring_node                                          *)
(***************************************************************************)
not_disqualified(h) == ~Disqualified[h]

\* scored_jobs = state.get("scored_jobs", [])
scored_jobs_stale == scored_jobs

\* scored_jobs = []
scored_jobs_start == <<>>

RECURSIVE insert_desc_before_equal(_, _, _)
\* x goes in front of the elements whose key equals its own
insert_desc_before_equal(sorted, x, key) ==
    IF sorted = <<>> THEN <<x>>
    ELSE IF key[Head(sorted)] > key[x]
         THEN <<Head(sorted)>> \o insert_desc_before_equal(Tail(sorted), x, key)
         ELSE <<x>> \o sorted

RECURSIVE insert_desc(_, _, _)
\* x goes behind every element whose key is at least its own
insert_desc(sorted, x, key) ==
    IF sorted = <<>> THEN <<x>>
    ELSE IF key[Head(sorted)] >= key[x]
         THEN <<Head(sorted)>> \o insert_desc(Tail(sorted), x, key)
         ELSE <<x>> \o sorted

\* the list left in the order it came in
sort_desc_skipped(list, key) == list

RECURSIVE sort_desc(_, _)
\* list.sort(key=..., reverse=True): descending, equal keys keep their order
sort_desc(list, key) ==
    IF list = <<>> THEN <<>>
    ELSE insert_desc(sort_desc(SubSeq(list, 1, Len(list) - 1), key),
                     list[Len(list)], key)

\* the score the node writes on the k-th posting it scores
score_written(h, k, emb) ==
    rounded_score(BaseScore[h],
                  semantic_bonus(emb.loaded,
                                 IF emb.loaded THEN emb.answers[k] ELSE Raises))

\* the scores when the score is computed and stored before the posting is
\* tested for disqualification
scores_after_unfiltered(qualified, emb) ==
    [h \in Handles |->
        IF in_seq(h, qualified)
        THEN score_written(h, index_of(h, qualified), emb)
        ELSE IF in_seq(h, filtered_jobs)
             THEN rounded_score(BaseScore[h], 0)
             ELSE relevance_score[h]]

\* the scores when a posting whose embedding call raised, or that has no model
\* to ask, is passed over instead of scored
scores_after_skipping_failures(qualified, emb) ==
    [h \in Handles |->
        IF /\ in_seq(h, qualified)
           /\ emb.loaded
           /\ ~emb.answers[index_of(h, qualified)].raises
        THEN score_written(h, index_of(h, qualified), emb)
        ELSE relevance_score[h]]

\* the scores of all posting objects once every posting of `qualified` is scored
scores_after(qualified, emb) ==
    [h \in Handles |->
        IF in_seq(h, qualified)
        THEN score_written(h, index_of(h, qualified), emb)
        ELSE relevance_score[h]]

\* the selection with > in place of >=
qualifying_strict(scored, score) ==
    LET above_min(h) == score[h] > MIN_RELEVANCE_SCORE * 10
    IN  select(scored, above_min)

\* selected = [j for j in scored_jobs if j.relevance_score >= MIN_RELEVANCE_SCORE]
qualifying(scored, score) ==
    LET at_least_min(h) == score[h] >= MIN_RELEVANCE_SCORE * 10
    IN  select(scored, at_least_min)

\* the body of the node, for the embedding collaborator emb
score_and_select(emb) ==
    LET jobs == filtered_jobs
        qualified == select(jobs, not_disqualified)
        score == scores_after(qualified, emb)
        scored == sort_desc(scored_jobs_start \o qualified, score)
    IN  /\ relevance_score' = score
        /\ scored_jobs' = scored
        /\ selected_jobs' = qualifying(scored, score)

\* what the embedding collaborator of the run can do for n postings:
\* get_embeddings raises, or it loads and every posting that is scored gets
\* one answer
embedding_collaborators(n) ==
    IF embeddings.loaded
    THEN {[loaded |-> TRUE, answers |-> a] : a \in [1..n -> SimOutcomes]}
    ELSE {NoEmbeddings}

relevance_scoring_node ==
    /\ pc = "relevance_scoring"
    /\ UNCHANGED <<scorer_locals, fetch, search_queries>>
    /\ \E emb \in embedding_collaborators(Len(select(filtered_jobs, not_disqualified))) :
          /\ embeddings' = emb
          /\ score_and_select(emb)
    /\ pc' = "resume_optimization"
    /\ stages' = Append(stages, "relevance_scoring")
    /\ scoring_runs' = scoring_runs + 1
    /\ yielded' = <<>>
    /\ UNCHANGED <<raw_jobs, filtered_jobs, resume_versions, cover_letters,
                   application_records, tracker_export_path, run_summary,
                   errors, sent, tailoring, letters>>
    /\ UNCHANGED <<environment, sinks, telegram>>

(***************************************************************************)
(* Node 3: resume_optimization_node.  Per selected posting:                *)
(*   "ok"        both LLM calls answered with the JSON asked for           *)
(*   "fallback"  an LLM call raised or its text was not JSON; the helper   *)
(*               caught it and returned its fallback value                 *)
(*   "throws"    the body of the try raised (an LLM answer that is valid   *)
(*               JSON of the wrong shape, e.g. a list for the keywords)    *)
(***************************************************************************)
TailoringOutcomes == {"ok", "fallback", "throws"}

\* with no LLM every call_llm raises inside the helpers' try blocks
tailoring_outcomes == IF llm = "none" THEN {"fallback"} ELSE TailoringOutcomes

\* uuid.uuid4().hex[:6] of the k-th version built in a run
uuid_hex == [k \in 1..EnrichLimit |-> "a3f9" \o TwoDigits(k)]

job_id_of(h) == JobOf[h].job_id

RECURSIVE tailor_stops(_, _, _)
\* the loop with the try around it instead of inside it: the first posting
\* that throws ends the loop
tailor_stops(jobs, outcome, k) ==
    IF k > Len(jobs) THEN [versions |-> <<>>, errors |-> <<>>]
    ELSE IF outcome[k] = "throws"
         THEN [versions |-> <<>>,
               errors   |-> <<[stage |-> "Resume", job_id |-> job_id_of(jobs[k])]>>]
         ELSE LET rest == tailor_stops(jobs, outcome, k + 1)
              IN  [versions |-> <<[job_id     |-> job_id_of(jobs[k]),
                                   version_id |-> "v_" \o uuid_hex[k],
                                   keywords   |-> IF outcome[k] = "ok"
                                                  THEN "llm" ELSE "fallback"]>>
                                    \o rest.versions,
                    errors   |-> rest.errors]

RECURSIVE tailor_unguarded(_, _, _)
\* the loop with helpers that do not catch: a failed or unparseable LLM call
\* reaches the except of the node like any other exception of the body
tailor_unguarded(jobs, outcome, k) ==
    IF k > Len(jobs) THEN [versions |-> <<>>, errors |-> <<>>]
    ELSE LET rest == tailor_unguarded(jobs, outcome, k + 1)
         IN  IF outcome[k] # "ok"
             THEN [versions |-> rest.versions,
                   errors   |-> <<[stage |-> "Resume", job_id |-> job_id_of(jobs[k])]>>
                                    \o rest.errors]
             ELSE [versions |-> <<[job_id     |-> job_id_of(jobs[k]),
                                   version_id |-> "v_" \o uuid_hex[k],
                                   keywords   |-> "llm"]>>
                                    \o rest.versions,
                   errors   |-> rest.errors]

RECURSIVE tailor(_, _, _)
\* the for loop over selected_jobs: <<resume_versions, error entries>>
tailor(jobs, outcome, k) ==
    IF k > Len(jobs) THEN [versions |-> <<>>, errors |-> <<>>]
    ELSE LET rest == tailor(jobs, outcome, k + 1)
         IN  IF outcome[k] = "throws"
             THEN [versions |-> rest.versions,
                   errors   |-> <<[stage |-> "Resume", job_id |-> job_id_of(jobs[k])]>>
                                    \o rest.errors]
             ELSE [versions |-> <<[job_id     |-> job_id_of(jobs[k]),
                                   version_id |-> "v_" \o uuid_hex[k],
                                   keywords   |-> IF outcome[k] = "ok"
                                                  THEN "llm" ELSE "fallback"]>>
                                    \o rest.versions,
                   errors   |-> rest.errors]

resume_optimization_node ==
    /\ pc = "resume_optimization"
    /\ UNCHANGED <<scorer_locals, fetch, search_queries>>
    /\ \E outcome \in [1..Len(selected_jobs) -> tailoring_outcomes] :
          LET done == tailor(selected_jobs, outcome, 1)
          IN  /\ resume_versions' = done.versions
              /\ errors' = errors \o done.errors
              /\ tailoring' = outcome
    /\ pc' = "cover_letter_generation"
    /\ stages' = Append(stages, "resume_optimization")
    /\ UNCHANGED <<raw_jobs, filtered_jobs, scored_jobs, selected_jobs,
                   relevance_score, cover_letters, application_records,
                   tracker_export_path, run_summary, sent, embeddings, letters,
                   scoring_runs, yielded>>
    /\ UNCHANGED <<environment, sinks, telegram>>

(***************************************************************************)
(* Node 4: cover_letter_node.  Per selected posting call_llm answers       *)
(* ("ok") or raises ("throws").                                            *)
(***************************************************************************)
LetterOutcomes == {"ok", "throws"}

\* with no LLM call_llm raises for every posting
letter_outcomes == IF llm = "none" THEN {"throws"} ELSE LetterOutcomes

\* resume_map.get(job_id) is not None
has_key(records, job_id) == \E i \in 1..Len(records) : records[i].job_id = job_id

\* {r.job_id: r for r in records}.get(job_id): the last record of that key
lookup(records, job_id) ==
    records[CHOOSE i \in 1..Len(records) :
                /\ records[i].job_id = job_id
                /\ \A j \in (i + 1)..Len(records) : records[j].job_id # job_id]

RECURSIVE write_letters_needs_resume(_, _, _, _)
\* the loop passing over a posting that has no resume version: no letter and
\* no error entry for it
write_letters_needs_resume(jobs, versions, outcome, k) ==
    IF k > Len(jobs) THEN [letters |-> <<>>, errors |-> <<>>]
    ELSE LET rest == write_letters_needs_resume(jobs, versions, outcome, k + 1)
         IN  IF ~has_key(versions, job_id_of(jobs[k])) THEN rest
             ELSE IF outcome[k] = "throws"
             THEN [letters |-> rest.letters,
                   errors  |-> <<[stage |-> "CoverLetter",
                                  job_id |-> job_id_of(jobs[k])]>> \o rest.errors]
             ELSE [letters |-> <<[job_id |-> job_id_of(jobs[k]),
                                  resume_content |->
                                     lookup(versions, job_id_of(jobs[k])).version_id]>>
                                  \o rest.letters,
                   errors  |-> rest.errors]

RECURSIVE write_letters(_, _, _, _)
\* the for loop over selected_jobs: <<cover_letters, error entries>>
write_letters(jobs, versions, outcome, k) ==
    IF k > Len(jobs) THEN [letters |-> <<>>, errors |-> <<>>]
    ELSE LET rest == write_letters(jobs, versions, outcome, k + 1)
         IN  IF outcome[k] = "throws"
             THEN [letters |-> rest.letters,
                   errors  |-> <<[stage |-> "CoverLetter",
                                  job_id |-> job_id_of(jobs[k])]>> \o rest.errors]
             ELSE [letters |-> <<[job_id |-> job_id_of(jobs[k]),
                                  resume_content |->
                                     IF has_key(versions, job_id_of(jobs[k]))
                                     THEN lookup(versions, job_id_of(jobs[k])).version_id
                                     ELSE "{}"]>> \o rest.letters,
                   errors  |-> rest.errors]

cover_letter_node ==
    /\ pc = "cover_letter_generation"
    /\ UNCHANGED <<scorer_locals, fetch, search_queries>>
    /\ \E outcome \in [1..Len(selected_jobs) -> letter_outcomes] :
          LET done == write_letters(selected_jobs, resume_versions, outcome, 1)
          IN  /\ cover_letters' = done.letters
              /\ errors' = errors \o done.errors
              /\ letters' = outcome
    /\ pc' = "application_tracker"
    /\ stages' = Append(stages, "cover_letter_generation")
    /\ UNCHANGED <<raw_jobs, filtered_jobs, scored_jobs, selected_jobs,
                   relevance_score, resume_versions, application_records,
                   tracker_export_path, run_summary, sent, embeddings, tailoring,
                   scoring_runs, yielded>>
    /\ UNCHANGED <<environment, sinks, telegram>>

(***************************************************************************)
(* Node 5: application_tracker_node.  save_to_csv and                      *)
(* generate_output_report have no try block: an OSError or a pandas error  *)
(* in either leaves the node, and the graph, by exception.                 *)
(***************************************************************************)
TrackerOutcomes == {"ok", "csv_raises", "report_raises"}

TRACKER_CSV_PATH == "output/application_tracker.csv"

\* the record keyed by the resume version instead of the posting
application_record_of_version(h, versions) ==
    [job_id            |-> IF has_key(versions, job_id_of(h))
                           THEN lookup(versions, job_id_of(h)).job_id
                           ELSE "",
     company           |-> JobOf[h].company,
     role              |-> JobOf[h].title,
     resume_version_id |-> IF has_key(versions, job_id_of(h))
                           THEN lookup(versions, job_id_of(h)).version_id
                           ELSE "",
     status            |-> "Discovered"]

\* the ApplicationRecord of one selected posting
application_record(h, versions) ==
    [job_id            |-> job_id_of(h),
     company           |-> JobOf[h].company,
     role              |-> JobOf[h].title,
     resume_version_id |-> IF has_key(versions, job_id_of(h))
                           THEN lookup(versions, job_id_of(h)).version_id
                           ELSE "",
     status            |-> "Discovered"]

\* combined.drop_duplicates(subset=["job_id"], keep="last")
drop_duplicates(rows) ==
    LET last_of_its_id(i) ==
            \A j \in (i + 1)..Len(rows) : rows[j].job_id # rows[i].job_id
        kept == {i \in 1..Len(rows) : last_of_its_id(i)}
        nth(k) == CHOOSE i \in kept : Cardinality({j \in kept : j < i}) = k - 1
    IN  [k \in 1..Cardinality(kept) |-> rows[nth(k)]]

\* the file after save_to_csv(records, jobs) has returned
save_to_csv(file, records) ==
    [exists |-> TRUE,
     rows   |-> IF file.exists THEN drop_duplicates(file.rows \o records)
                ELSE records]

\* the worksheet after sync_to_google_sheets(records, jobs): not configured it
\* returns at once, and an exception from gspread is logged
sync_to_google_sheets(rows, records, sheets) ==
    IF sheets # "up" THEN rows
    ELSE LET existing_ids == {rows[i].job_id : i \in 1..Len(rows)}
             is_new(rec) == rec.job_id \notin existing_ids
         IN  rows \o select(records, is_new)

\* the database after sync_to_notion(records, jobs): not configured it
\* returns at once, and an exception from the client is logged
sync_to_notion(pages, records, notion) ==
    IF notion # "up" THEN pages ELSE pages \o records

\* records = [ApplicationRecord(...) for job in selected_jobs]
records_of(jobs, versions) ==
    [i \in 1..Len(jobs) |-> application_record(jobs[i], versions)]

application_tracker_node ==
    /\ pc = "application_tracker"
    /\ UNCHANGED <<scorer_locals, fetch, search_queries>>
    /\ stages' = Append(stages, "application_tracker")
    /\ \E outcome \in TrackerOutcomes :
        LET records == records_of(selected_jobs, resume_versions)
        IN
          /\ csv_file' = IF outcome = "csv_raises" THEN csv_file
                         ELSE save_to_csv(csv_file, records)
          /\ sheet_rows' = IF outcome # "ok" THEN sheet_rows
                           ELSE sync_to_google_sheets(sheet_rows, records,
                                                      sink_config.sheets)
          /\ notion_pages' = IF outcome # "ok" THEN notion_pages
                             ELSE sync_to_notion(notion_pages, records,
                                                 sink_config.notion)
          /\ IF outcome = "ok"
             THEN /\ application_records' = records
                  /\ tracker_export_path' = TRACKER_CSV_PATH
                  /\ run_summary' =
                        [written          |-> TRUE,
                         total_discovered |-> Len(raw_jobs),
                         qualifying_jobs  |-> Len(selected_jobs),
                         resume_versions  |-> Len(resume_versions),
                         cover_letters    |-> Len(cover_letters)]
                  /\ pc' = "telegram_notifications"
             ELSE /\ UNCHANGED <<application_records, tracker_export_path,
                                 run_summary>>
                  /\ pc' = "aborted"
    /\ UNCHANGED <<raw_jobs, filtered_jobs, scored_jobs, selected_jobs,
                   relevance_score, resume_versions, cover_letters, errors, sent,
                   embeddings, tailoring, letters, scoring_runs, yielded>>
    /\ UNCHANGED <<environment, telegram>>

(***************************************************************************)
(* Node 6: telegram_notification_node.  The notifier of a run is           *)
(*   "unconfigured"  no bot token or chat id                               *)
(*   "up"            every send answers 200                                *)
(*   "down"          every send raises or answers another status           *)
(***************************************************************************)
Notifiers == {"unconfigured", "up", "down"}

message(kind, job_id, rv, cl, notifier) ==
    [kind |-> kind, job_id |-> job_id, rv |-> rv, cl |-> cl,
     delivered |-> (notifier = "up")]

\* the sends of a node whose send functions let the failure out: the first
\* send that fails is the last one made
notifications_until_failure(notifier) ==
    IF notifier = "unconfigured" THEN <<>>
    ELSE IF selected_jobs = <<>> THEN <<message("no_jobs", "", FALSE, FALSE, notifier)>>
    ELSE LET top == first_n(selected_jobs, DetailLimit)
         IN  <<message("summary", "", FALSE, FALSE, notifier)>>
             \o (IF notifier = "down" THEN <<>>
                 ELSE [i \in 1..Len(top) |->
                          message("detail", job_id_of(top[i]),
                                  has_key(resume_versions, job_id_of(top[i])),
                                  has_key(cover_letters, job_id_of(top[i])),
                                  notifier)]
                      \o <<message("csv", "", FALSE, FALSE, notifier),
                           message("report", "", FALSE, FALSE, notifier)>>)

\* the sends of a node without the branch for an empty selection
notifications_always_summary(notifier) ==
    IF notifier = "unconfigured" THEN <<>>
    ELSE LET top == first_n(selected_jobs, DetailLimit)
         IN  <<message("summary", "", FALSE, FALSE, notifier)>>
             \o [i \in 1..Len(top) |->
                    message("detail", job_id_of(top[i]),
                            has_key(resume_versions, job_id_of(top[i])),
                            has_key(cover_letters, job_id_of(top[i])),
                            notifier)]
             \o <<message("csv", "", FALSE, FALSE, notifier),
                  message("report", "", FALSE, FALSE, notifier)>>

\* the sends of a node with a detail message for every selected posting
notifications_all_details(notifier) ==
    IF notifier = "unconfigured" THEN <<>>
    ELSE IF selected_jobs = <<>> THEN <<message("no_jobs", "", FALSE, FALSE, notifier)>>
    ELSE <<message("summary", "", FALSE, FALSE, notifier)>>
         \o [i \in 1..Len(selected_jobs) |->
                message("detail", job_id_of(selected_jobs[i]),
                        has_key(resume_versions, job_id_of(selected_jobs[i])),
                        has_key(cover_letters, job_id_of(selected_jobs[i])),
                        notifier)]
         \o (IF tracker_export_path # ""
             THEN <<message("csv", "", FALSE, FALSE, notifier)>> ELSE <<>>)
         \o (IF run_summary.written
             THEN <<message("report", "", FALSE, FALSE, notifier)>> ELSE <<>>)

\* the sends of the node, in order
notifications(notifier) ==
    IF notifier = "unconfigured" THEN <<>>
    ELSE IF selected_jobs = <<>> THEN <<message("no_jobs", "", FALSE, FALSE, notifier)>>
    ELSE LET top == first_n(selected_jobs, DetailLimit)
         IN  <<message("summary", "", FALSE, FALSE, notifier)>>
             \o [i \in 1..Len(top) |->
                    message("detail", job_id_of(top[i]),
                            has_key(resume_versions, job_id_of(top[i])),
                            has_key(cover_letters, job_id_of(top[i])),
                            notifier)]
             \o (IF tracker_export_path # ""
                 THEN <<message("csv", "", FALSE, FALSE, notifier)>> ELSE <<>>)
             \o (IF run_summary.written
                 THEN <<message("report", "", FALSE, FALSE, notifier)>> ELSE <<>>)

telegram_notification_node ==
    /\ pc = "telegram_notifications"
    /\ UNCHANGED <<scorer_locals, fetch, search_queries>>
    /\ \E notifier \in Notifiers :
          /\ telegram' = notifier
          /\ sent' = notifications(notifier)
    /\ pc' = "END"
    /\ stages' = Append(stages, "telegram_notifications")
    /\ UNCHANGED <<raw_jobs, filtered_jobs, scored_jobs, selected_jobs,
                   relevance_score, resume_versions, cover_letters,
                   application_records, tracker_export_path, run_summary, errors,
                   embeddings, tailoring, letters, scoring_runs, yielded>>
    /\ UNCHANGED <<environment, sinks>>

(***************************************************************************)
(* agent.py: build_agent wires the six nodes in a line                     *)
(***************************************************************************)
Next ==
    \/ job_discovery_node
    \/ relevance_scoring_node
    \/ resume_optimization_node
    \/ cover_letter_node
    \/ application_tracker_node
    \/ telegram_notification_node

Spec == Init /\ [][Next]_vars

\* the runs that score by keywords only: no embedding model can be loaded
InitKeywordScoring == Init /\ embeddings = NoEmbeddings

SpecKeywordScoring == InitKeywordScoring /\ [][Next]_vars

\* the runs without any LLM: get_llm raises on every call
InitNoLlm == Init /\ llm = "none"

SpecNoLlm == InitNoLlm /\ [][Next]_vars

(***************************************************************************)
(* The scoring node run a second time on the context the first run left,   *)
(* with the same embedding collaborator giving the same answers.           *)
(***************************************************************************)
relevance_scoring_again ==
    /\ pc = "resume_optimization"
    /\ UNCHANGED <<scorer_locals, fetch, search_queries>>
    /\ scoring_runs = 1
    /\ score_and_select(embeddings)
    /\ scoring_runs' = scoring_runs + 1
    /\ UNCHANGED <<pc, stages, raw_jobs, filtered_jobs, resume_versions,
                   cover_letters, application_records, tracker_export_path,
                   run_summary, errors, sent, embeddings, tailoring, letters,
                   yielded>>
    /\ UNCHANGED <<environment, sinks, telegram>>

NextRescore == Next \/ relevance_scoring_again

SpecRescore == InitNoLlm /\ [][NextRescore]_vars

(***************************************************************************)
(* A later run of the agent: the remote sinks may be configured, and an    *)
(* earlier run may have tracked a posting that this run can select again.  *)
(***************************************************************************)
SinkStates == {"unconfigured", "up", "down"}

\* the record an earlier run tracked for the posting of card 6, with the
\* resume version it built then
EarlierRecord ==
    application_record(9, <<[job_id |-> job_id_of(9), version_id |-> "v_9f8e7d",
                             keywords |-> "llm"]>>)

InitLaterRun ==
    /\ initial_state
    /\ helpers_idle
    /\ llm = "available"
    /\ embeddings = NoEmbeddings
    /\ sink_config \in [sheets : SinkStates, notion : SinkStates]
    /\ \E tracked \in {<<>>, <<EarlierRecord>>} :
          /\ csv_file = IF tracked = <<>> THEN NoFile
                        ELSE save_to_csv(NoFile, tracked)
          /\ sheet_rows = IF sink_config.sheets = "unconfigured" THEN <<>>
                          ELSE sync_to_google_sheets(<<>>, tracked, "up")
          /\ notion_pages = IF sink_config.notion = "unconfigured" THEN <<>>
                            ELSE sync_to_notion(<<>>, tracked, "up")

SpecLaterRun == InitLaterRun /\ [][Next]_vars

(***************************************************************************)
(* A run on a busy day: every query searched yields a page of postings,    *)
(* more than the node enriches.  The run has the queries it was started    *)
(* with (run_agent(custom_queries)), no LLM and no embedding model.        *)
(***************************************************************************)
InitBusyBoards ==
    /\ initial_state
    /\ llm = "none"
    /\ embeddings = NoEmbeddings
    /\ sink_config = SinksNotConfigured
    /\ csv_file = NoFile
    /\ sheet_rows = <<>>
    /\ notion_pages = <<>>
    /\ boards = "busy"
    /\ search_queries \in {first_n(SEARCH_QUERIES, n) : n \in 1..Len(SEARCH_QUERIES)}
    /\ scoring_job = <<>>
    /\ component_scores = <<>>
    /\ attempts = <<>>
    /\ resp = "idle"
    /\ scraper = 0

SpecBusyBoards == InitBusyBoards /\ [][Next]_vars

(***************************************************************************)
(* The scoring loop followed for one posting: the four component functions *)
(* applied to a JobListing whose texts are drawn from the sets below.      *)
(***************************************************************************)
\* every variable of the run
run_state == <<pc, stages, context, relevance_score, sent, telegram, embeddings,
               tailoring, letters, scoring_runs, environment, sinks,
               search_queries>>

ScoredDescriptions ==
    {"",
     "Data Analyst at Foobar Consulting. Location: Agra",
     "LLM RAG Agent Intern at Orbit NLP Startup",
     "Generative AI role: LangChain LangGraph LLM RAG PyTorch OpenAI GPT vector embedding agent"}

ScoredRequiredSkills ==
    {<<>>,
     <<"Git", "Python">>,
     <<"PyTorch", "LangChain", "SQL">>,
     <<"COBOL">>,
     <<"python", "RAG", "Rust">>}

ScoredPreferredSkills == {<<>>, <<"LLaMA", "Fine-tuning">>}

ScoredExperiences ==
    {"", "Entry Level", "0-1 years", "1+ years of experience",
     "Junior, 3+ preferred", "2+ years", "2-3 years", "4+ years", "Senior",
     "Fresher or 1-2 year"}

\* the JobListing objects the loop is followed for
ScoredJobs ==
    {[title               |-> "ML Engineer",
      company             |-> "Acme AI",
      description         |-> d,
      required_skills     |-> r,
      preferred_skills    |-> p,
      experience_required |-> e] :
        d \in ScoredDescriptions, r \in ScoredRequiredSkills,
        p \in ScoredPreferredSkills, e \in ScoredExperiences}

InitScorer ==
    /\ initial_state
    /\ llm = "none"
    /\ embeddings = NoEmbeddings
    /\ sink_config = SinksNotConfigured
    /\ csv_file = NoFile
    /\ sheet_rows = <<>>
    /\ notion_pages = <<>>
    /\ search_queries = SEARCH_QUERIES
    /\ boards = "quiet"
    /\ attempts = <<>>
    /\ resp = "idle"
    /\ scraper = 0
    /\ scoring_job \in {<<j>> : j \in ScoredJobs}
    /\ component_scores = <<>>

\* s1 = _skill_overlap_score(job) ... s4 = _company_preference_score(job)
score_components ==
    /\ scoring_job # <<>>
    /\ component_scores = <<>>
    /\ component_scores' =
          <<[s1 |-> _skill_overlap_score(scoring_job[1]),
             s2 |-> _experience_match_score(scoring_job[1]),
             s3 |-> _tech_stack_score(scoring_job[1]),
             s4 |-> _company_preference_score(scoring_job[1])]>>
    /\ UNCHANGED <<scoring_job, fetch, yielded, run_state>>

NextScorer == score_components

SpecScorer == InitScorer /\ [][NextScorer]_vars

(***************************************************************************)
(* The scrapers of one query followed call by call: each of                *)
(* scrape_internshala, scrape_indeed and scrape_wellfound starts with      *)
(* resp = _safe_get(url) and returns no job when resp is None.             *)
(* (scrape_linkedin makes its first request without _safe_get.)            *)
(***************************************************************************)
\* def _safe_get(url, retries: int = 3)
retries == 3

\* requests.get answers 200, answers another status, or raises
GetOutcomes == {"200", "503", "exception"}

\* the scrapers in the order job_discovery_node calls them
SafeGetSources == <<"internshala", "indeed", "wellfound">>

\* the cards a source's result page turns into dicts, in page order
page_cards(source) ==
    LET of_source(c) == Cards[c].source = source /\ c \in Scraped
    IN  select([c \in 1..Len(Cards) |-> c], of_source)

\* the loop that goes on until an attempt answers 200
after_attempt_no_limit(tried) ==
    IF tried[Len(tried)] = "200" THEN "response" ELSE "running"

\* where _safe_get is after the attempts `tried`: it has returned the
\* response of the last one, it has left the loop and returned None, or it
\* sleeps before the next attempt
after_attempt(tried) ==
    IF tried[Len(tried)] = "200" THEN "response"
    ELSE IF Len(tried) >= retries THEN "None"
    ELSE "running"

InitSafeGet ==
    /\ initial_state
    /\ llm = "available"
    /\ embeddings = NoEmbeddings
    /\ sink_config = SinksNotConfigured
    /\ csv_file = NoFile
    /\ sheet_rows = <<>>
    /\ notion_pages = <<>>
    /\ search_queries = SEARCH_QUERIES
    /\ boards = "quiet"
    /\ scoring_job = <<>>
    /\ component_scores = <<>>
    /\ attempts = <<>>
    /\ resp = "running"
    /\ scraper = 1

\* one pass of the for loop of _safe_get
safe_get_attempt ==
    /\ resp = "running"
    /\ \E outcome \in GetOutcomes :
          /\ attempts' = Append(attempts, outcome)
          /\ resp' = after_attempt(Append(attempts, outcome))
    /\ UNCHANGED <<scraper, yielded, scorer_locals, run_state>>

\* the scraper goes on after _safe_get: `if not resp: return jobs`, else the
\* cards of the page; job_discovery_node then calls the next scraper
scraper_returns ==
    /\ resp \in {"response", "None"}
    /\ yielded' = yielded \o (IF resp = "None" THEN <<>>
                              ELSE page_cards(SafeGetSources[scraper]))
    /\ scraper' = scraper + 1
    /\ attempts' = <<>>
    /\ resp' = IF scraper < Len(SafeGetSources) THEN "running" ELSE "idle"
    /\ UNCHANGED <<scorer_locals, run_state>>

NextSafeGet == safe_get_attempt \/ scraper_returns

\* requests.get has timeout=15 and the sleep between attempts is at most 3.5
\* seconds: an attempt that can be made is made
SpecSafeGet == InitSafeGet /\ [][NextSafeGet]_vars /\ WF_vars(NextSafeGet)

(***************************************************************************)
(* Properties                                                              *)
(***************************************************************************)
scoring_done == scoring_runs >= 1

\* some blacklist keyword is a case-insensitive substring of the title, of
\* the description or of the experience text of the posting
BlacklistHit ==
    [h \in Handles |->
        \E i \in 1..Len(BLACKLIST_KEYWORDS) :
            LET kw == lower(BLACKLIST_KEYWORDS[i])
            IN  \/ contains(lower(JobOf[h].title), kw)
                \/ contains(lower(JobOf[h].description), kw)
                \/ contains(lower(JobOf[h].experience_required), kw)]

\* C1: once the scoring node has run, a posting of filtered_jobs with a
\* blacklist keyword in its title, description or experience text is neither
\* in scored_jobs nor in selected_jobs, whatever its components add up to.
C1_BlacklistedNeverScored ==
    scoring_done =>
        \A i \in 1..Len(filtered_jobs) :
            BlacklistHit[filtered_jobs[i]] =>
                /\ ~in_seq(filtered_jobs[i], scored_jobs)
                /\ ~in_seq(filtered_jobs[i], selected_jobs)

\* a posting whose only blacklist hit needs lower-casing ("3+ Years") and
\* whose components add up to 77 was scored around, next to a scored posting
C1_Witness ==
    /\ scoring_done
    /\ scored_jobs # <<>>
    /\ \E i \in 1..Len(filtered_jobs) :
          LET h == filtered_jobs[i]
          IN  /\ BlacklistHit[h]
              /\ contains(JobOf[h].experience_required, "3+ Years")
              /\ BaseScore[h] >= MIN_RELEVANCE_SCORE * 100

\* the elements of seq are pairwise different
no_repeats(seq) == \A i, j \in 1..Len(seq) : i # j => seq[i] # seq[j]

\* sub holds elements of seq in the order they have in seq
in_order_of(sub, seq) ==
    \A i, j \in 1..Len(sub) :
        i < j => \E a, b \in 1..Len(seq) : a < b /\ seq[a] = sub[i] /\ seq[b] = sub[j]

sorted_stable(seq) ==
    \A i, j \in 1..Len(seq) :
        i < j =>
            /\ relevance_score[seq[i]] >= relevance_score[seq[j]]
            /\ relevance_score[seq[i]] = relevance_score[seq[j]]
                  => index_of(seq[i], filtered_jobs) < index_of(seq[j], filtered_jobs)

\* C3: scored_jobs and selected_jobs are ordered by non-increasing
\* relevance_score, and postings of equal score keep the order they have in
\* filtered_jobs.
C3_SortedDescendingStable ==
    scoring_done => sorted_stable(scored_jobs) /\ sorted_stable(selected_jobs)

\* two selected postings of equal score, discovered in the order opposite to
\* their listing numbers
C3_Witness ==
    /\ scoring_done
    /\ Len(selected_jobs) >= 2
    /\ \E i \in 1..Len(selected_jobs) - 1 :
          /\ relevance_score[selected_jobs[i]] = relevance_score[selected_jobs[i + 1]]
          /\ selected_jobs[i] > selected_jobs[i + 1]

\* the posting of the end-to-end scenario
ScenarioJob ==
    CHOOSE h \in Handles :
        /\ JobOf[h].required_skills = <<"Python", "PyTorch">>
        /\ JobOf[h].experience_required = "Machine Learning Intern, fresher welcome"
        /\ JobOf[h].company = "Acme AI"
        /\ contains(JobOf[h].description, "LangChain")
        /\ contains(JobOf[h].description, "RAG")

scenario_scored ==
    scoring_done /\ ~embeddings.loaded /\ in_seq(ScenarioJob, filtered_jobs)

\* C4 as stated: without embeddings the scenario posting has the components
\* skill 40, experience 25, tech 6, company 2, the score 73.0, and is selected.
C4_ScenarioScores73 ==
    scenario_scored =>
        /\ Components[ScenarioJob] = [s1 |-> 4000, s2 |-> 2500, s3 |-> 600, s4 |-> 200]
        /\ relevance_score[ScenarioJob] = 730
        /\ in_seq(ScenarioJob, selected_jobs)

\* C4 amended: without embeddings the scenario posting has the components
\* skill 40, experience 25, tech 9 (the required skill "PyTorch" is a priority
\* term next to "langchain" and "rag" of the description), company 2, so the
\* base and the score are 76.0, and it is selected at the threshold 60.
C4_ScenarioScores76 ==
    scenario_scored =>
        /\ Components[ScenarioJob] = [s1 |-> 4000, s2 |-> 2500, s3 |-> 900, s4 |-> 200]
        /\ BaseScore[ScenarioJob] = 7600
        /\ relevance_score[ScenarioJob] = 760
        /\ in_seq(ScenarioJob, selected_jobs)

\* the scenario posting was scored without embeddings, next to another posting
C4_Witness ==
    /\ scenario_scored
    /\ Len(scored_jobs) >= 2
    /\ in_seq(ScenarioJob, scored_jobs)

\* the answer the embedding collaborator gave for the scored posting h
answer_for(h) ==
    embeddings.answers[index_of(h, select(filtered_jobs, not_disqualified))]

\* the score of a posting whose components add up to base (hundredths) and
\* whose semantic contribution is contribution (thousandths of a point)
score_with(base, contribution) ==
    round_div(min(base * 10 + contribution, 100000), 100)

\* C5 as stated: a posting scored without an embedding model, and one whose
\* embedding call raised, both get the four components plus 0.5.
C5_AbsentAndRaisingAddHalfPoint ==
    scoring_done =>
        \A i \in 1..Len(scored_jobs) :
            LET h == scored_jobs[i]
            IN  (~embeddings.loaded \/ answer_for(h).raises) =>
                    relevance_score[h] = score_with(BaseScore[h], 500)

\* C5 amended: a posting whose embedding call raised gets the default bonus
\* 5.0, so its score is the four components plus 0.5 (capped at 100); a
\* posting scored without an embedding model gets no semantic contribution,
\* so its score is the sum of the four components.
C5_RaisingAddsHalfPointAbsentAddsNone ==
    scoring_done =>
        \A i \in 1..Len(scored_jobs) :
            LET h == scored_jobs[i]
            IN  /\ ~embeddings.loaded =>
                       relevance_score[h] = score_with(BaseScore[h], 0)
                /\ (embeddings.loaded /\ answer_for(h).raises) =>
                       relevance_score[h] = score_with(BaseScore[h], 500)

\* with a model loaded, the call raised for one scored posting and answered
\* for another
C5_Witness ==
    /\ scoring_done
    /\ embeddings.loaded
    /\ \E i, j \in 1..Len(scored_jobs) :
          /\ answer_for(scored_jobs[i]).raises
          /\ relevance_score[scored_jobs[i]] = (BaseScore[scored_jobs[i]] + 50) \div 10
          /\ ~answer_for(scored_jobs[j]).raises

\* C6: the relevance_score of every scored posting is within 0..100.
C6_ScoreWithin0And100 ==
    scoring_done =>
        \A i \in 1..Len(scored_jobs) :
            /\ relevance_score[scored_jobs[i]] >= 0
            /\ relevance_score[scored_jobs[i]] <= 1000

\* C7: for every posting handed to the scorer, the skill component is within
\* 0..40, the experience component within 0..25, the tech component within
\* 0..25 and the company component within 0..10, so the base score is at
\* most 100.
C7_ComponentsWithinCaps ==
    \A i \in 1..Len(filtered_jobs) :
        LET c == Components[filtered_jobs[i]]
        IN  /\ c.s1 >= 0 /\ c.s1 <= 4000
            /\ c.s2 >= 0 /\ c.s2 <= 2500
            /\ c.s3 >= 0 /\ c.s3 <= 2500
            /\ c.s4 >= 0 /\ c.s4 <= 1000
            /\ c.s1 + c.s2 + c.s3 + c.s4 <= 10000
            /\ BaseScore[filtered_jobs[i]] = c.s1 + c.s2 + c.s3 + c.s4

\* the priority terms and the preferred-company keywords found in the posting
tech_hits(h) ==
    LET text == lower(JobOf[h].description)
                   \o join(" ", lower_all(JobOf[h].required_skills
                                             \o JobOf[h].preferred_skills))
    IN  Cardinality({i \in 1..Len(priority_tech) : contains(text, priority_tech[i])})

company_hits(h) ==
    LET text == lower(JobOf[h].company) \o " " \o lower(JobOf[h].description)
    IN  Cardinality({i \in 1..Len(PREFERRED_COMPANY_KEYWORDS) :
                        contains(text, lower(PREFERRED_COMPANY_KEYWORDS[i]))})

CapsBite == [h \in Handles |-> tech_hits(h) * 3 > 25 /\ company_hits(h) * 2 > 10]

\* a scored posting with more than 8 priority terms and more than 5 company
\* keywords, and every component at its cap
C7_Witness ==
    /\ scoring_done
    /\ \E i \in 1..Len(scored_jobs) :
          /\ CapsBite[scored_jobs[i]]
          /\ BaseScore[scored_jobs[i]] = 10000

\* C8: running the scoring node again on the context its first run left, with
\* the same embedding collaborator and answers, leaves every relevance_score,
\* scored_jobs, selected_jobs and filtered_jobs as they are.
C8_RescoringChangesNothing ==
    [][scoring_runs' = 2 =>
          /\ relevance_score' = relevance_score
          /\ scored_jobs' = scored_jobs
          /\ selected_jobs' = selected_jobs
          /\ filtered_jobs' = filtered_jobs]_vars

\* the node has run twice, with a model loaded, over two postings it scores,
\* one of them selected
C8_Witness ==
    /\ scoring_runs = 2
    /\ embeddings.loaded
    /\ Len(scored_jobs) = 2
    /\ Len(selected_jobs) = 1

PipelineOrder ==
    <<"job_discovery", "relevance_scoring", "resume_optimization",
      "cover_letter_generation", "application_tracker", "telegram_notifications">>

\* C9: the nodes run in the order of the pipeline, each at most once, and a
\* run that has stopped has run all six and is at END.
C9_SixStagesInOrderThenEnd ==
    /\ Len(stages) <= Len(PipelineOrder)
    /\ stages = SubSeq(PipelineOrder, 1, Len(stages))
    /\ pc \in {"END", "aborted"} => (pc = "END" /\ stages = PipelineOrder)

entered(node) == in_seq(node, stages)

\* the entries of `records` whose job_id is that of posting h
entries_of(records, h) ==
    {i \in 1..Len(records) : records[i].job_id = job_id_of(h)}

stage_errors(stage, h) ==
    {i \in 1..Len(errors) : errors[i].stage = stage /\ errors[i].job_id = job_id_of(h)}

\* C10: a posting whose tailoring throws gets exactly one "Resume" entry in
\* errors and no resume version, every other selected posting of the stage
\* still gets its version, and the next node is entered; the same holds for
\* letter generation with "CoverLetter" entries.  The posting stays in
\* selected_jobs: the letter stage still writes its letter (from an empty
\* resume), the tracker still writes its record (with an empty
\* resume_version_id) and the notifier still sends its detail message
\* (without resume part) when it sends details at all.
C10_PerPostingFailureIsContained ==
    /\ entered("resume_optimization") =>
          /\ Len(tailoring) = Len(selected_jobs)
          /\ pc # "resume_optimization"
          /\ \A k \in 1..Len(selected_jobs) :
                LET h == selected_jobs[k]
                IN  IF tailoring[k] = "throws"
                    THEN /\ Cardinality(stage_errors("Resume", h)) = 1
                         /\ entries_of(resume_versions, h) = {}
                    ELSE /\ Cardinality(stage_errors("Resume", h)) = 0
                         /\ Cardinality(entries_of(resume_versions, h)) = 1
    /\ entered("cover_letter_generation") =>
          /\ Len(letters) = Len(selected_jobs)
          /\ pc # "cover_letter_generation"
          /\ Len(errors) = Cardinality({k \in 1..Len(tailoring) : tailoring[k] = "throws"})
                            + Cardinality({k \in 1..Len(letters) : letters[k] = "throws"})
          /\ \A k \in 1..Len(selected_jobs) :
                LET h == selected_jobs[k]
                IN  IF letters[k] = "throws"
                    THEN /\ Cardinality(stage_errors("CoverLetter", h)) = 1
                         /\ entries_of(cover_letters, h) = {}
                    ELSE /\ Cardinality(stage_errors("CoverLetter", h)) = 0
                         /\ Cardinality(entries_of(cover_letters, h)) = 1
                         /\ tailoring[k] = "throws" =>
                               lookup(cover_letters, job_id_of(h)).resume_content = "{}"
    /\ run_summary.written =>
          /\ Len(application_records) = Len(selected_jobs)
          /\ \A k \in 1..Len(selected_jobs) :
                /\ application_records[k].job_id = job_id_of(selected_jobs[k])
                /\ tailoring[k] = "throws" <=>
                      application_records[k].resume_version_id = ""
    /\ (pc = "END" /\ sent # <<>> /\ selected_jobs # <<>>) =>
          \A k \in 1..min(Len(selected_jobs), DetailLimit) :
              /\ sent[k + 1].kind = "detail"
              /\ sent[k + 1].job_id = job_id_of(selected_jobs[k])
              /\ sent[k + 1].rv = (tailoring[k] # "throws")
              /\ sent[k + 1].cl = (letters[k] # "throws")

\* a finished run of two selected postings: the tailoring of the first threw
\* and that of the second did not, the letter of the second threw, and the
\* tracker and the notifier handled both
C10_Witness ==
    /\ pc = "END"
    /\ Len(selected_jobs) = 2
    /\ tailoring = <<"throws", "ok">>
    /\ letters = <<"ok", "throws">>
    /\ Len(errors) = 2
    /\ Len(resume_versions) = 1
    /\ Len(application_records) = 2
    /\ Len(sent) = 5

\* C11 as claimed: a posting whose generation call fails or answers text that
\* does not parse, in tailoring or in letter writing, gets an error entry of
\* that stage and no output of that stage.
C11_GenerationFailureDropsOutput ==
    /\ entered("resume_optimization") =>
          \A k \in 1..Len(selected_jobs) :
              tailoring[k] = "fallback" =>
                  /\ stage_errors("Resume", selected_jobs[k]) # {}
                  /\ entries_of(resume_versions, selected_jobs[k]) = {}
    /\ entered("cover_letter_generation") =>
          \A k \in 1..Len(selected_jobs) :
              letters[k] = "throws" =>
                  /\ stage_errors("CoverLetter", selected_jobs[k]) # {}
                  /\ entries_of(cover_letters, selected_jobs[k]) = {}

\* C11: a posting whose call_llm raises in letter writing gets exactly one
\* "CoverLetter" entry in errors and no cover letter.  A posting whose
\* generation call fails or does not parse in tailoring gets no error entry
\* and still gets its resume version, built from the helpers' fallback
\* values.
C11_LetterFailureDropsTailoringFallsBack ==
    /\ entered("resume_optimization") =>
          \A k \in 1..Len(selected_jobs) :
              tailoring[k] = "fallback" =>
                  /\ stage_errors("Resume", selected_jobs[k]) = {}
                  /\ \E i \in entries_of(resume_versions, selected_jobs[k]) :
                        /\ resume_versions[i].keywords = "fallback"
                        /\ entries_of(resume_versions, selected_jobs[k]) = {i}
    /\ entered("cover_letter_generation") =>
          \A k \in 1..Len(selected_jobs) :
              letters[k] = "throws" =>
                  /\ Cardinality(stage_errors("CoverLetter", selected_jobs[k])) = 1
                  /\ entries_of(cover_letters, selected_jobs[k]) = {}

\* letters are written for two postings: the tailoring of the first fell
\* back and its letter was written, the letter call of the second raised
C11_Witness ==
    /\ entered("cover_letter_generation")
    /\ llm = "available"
    /\ Len(selected_jobs) = 2
    /\ tailoring = <<"fallback", "ok">>
    /\ letters = <<"ok", "throws">>
    /\ Len(resume_versions) = 2
    /\ Len(cover_letters) = 1
    /\ Len(errors) = 1

\* C12: a run with no LLM at all that has postings to tailor (every
\* generation call raises the RuntimeError of get_llm) is aborted: it enters
\* neither the tracker nor the notifier.
C12_NoLlmAbortsRun ==
    (llm = "none" /\ selected_jobs # <<>>) =>
        /\ ~entered("application_tracker")
        /\ ~entered("telegram_notifications")
        /\ pc # "END"

\* C13: whatever a tracker sink does, application_tracker_node returns: once
\* the node has been entered, run_summary and application_records are
\* written and the run is at the notifier or past it.
C13_SinkFailureStaysInStage ==
    entered("application_tracker") =>
        /\ pc \in {"telegram_notifications", "END"}
        /\ run_summary.written
        /\ application_records = records_of(selected_jobs, resume_versions)

\* the kinds of the messages of `msgs`, in order
kinds_of(msgs) == [i \in 1..Len(msgs) |-> msgs[i].kind]

\* what a configured notifier is handed for n selected postings
expected_kinds(n) ==
    IF n = 0 THEN <<"no_jobs">>
    ELSE <<"summary">> \o [i \in 1..min(n, DetailLimit) |-> "detail"]
            \o <<"csv", "report">>

\* C14: a send that fails answers False and nothing else: once the notifier
\* node has been entered the run is at END with its context as the tracker
\* left it, and when a message was not delivered every message of the run
\* was still handed to Telegram, in order.
C14_DeliveryFailureIsNotFatal ==
    entered("telegram_notifications") =>
        /\ pc = "END"
        /\ run_summary.written
        /\ application_records = records_of(selected_jobs, resume_versions)
        /\ (\E i \in 1..Len(sent) : ~sent[i].delivered) =>
              kinds_of(sent) = expected_kinds(Len(selected_jobs))

\* a finished run of two selected postings whose five messages all failed
C14_Witness ==
    /\ pc = "END"
    /\ Len(selected_jobs) = 2
    /\ Len(sent) = 5
    /\ \A i \in 1..Len(sent) : ~sent[i].delivered

\* no two entries of a sink have the same job_id
one_entry_per_job_id(rows) ==
    \A i, j \in 1..Len(rows) : rows[i].job_id = rows[j].job_id => i = j

\* C15: the CSV file, the worksheet and the Notion database hold at most one
\* entry per job_id, and once the tracker has submitted the records of a run
\* every sink that took them holds each record as submitted.
C15_SinksIdempotentOnJobId ==
    /\ one_entry_per_job_id(csv_file.rows)
    /\ one_entry_per_job_id(sheet_rows)
    /\ one_entry_per_job_id(notion_pages)
    /\ run_summary.written =>
          \A k \in 1..Len(application_records) :
              /\ in_seq(application_records[k], csv_file.rows)
              /\ sink_config.sheets = "up" =>
                    in_seq(application_records[k], sheet_rows)
              /\ sink_config.notion = "up" =>
                    in_seq(application_records[k], notion_pages)

\* C16: a step of any node but the scoring node leaves every relevance_score
\* as it is; the scoring node runs once in a run and writes the score of the
\* postings of filtered_jobs that are not disqualified only, so a
\* disqualified posting keeps the default 0.
C16_ScoreWrittenOnceByScoring ==
    [][/\ pc # "relevance_scoring" => relevance_score' = relevance_score
       /\ pc = "relevance_scoring" =>
             /\ scoring_runs = 0 /\ scoring_runs' = 1
             /\ \A h \in Handles :
                   relevance_score'[h] # relevance_score[h] =>
                       in_seq(h, filtered_jobs) /\ ~Disqualified[h]
       /\ \A h \in Handles : Disqualified[h] => relevance_score'[h] = 0]_vars

\* a finished run that discovered a disqualified posting, still at 0, and a
\* posting that was scored
C16_Witness ==
    /\ pc = "END"
    /\ \E h \in Handles :
          in_seq(h, filtered_jobs) /\ Disqualified[h] /\ relevance_score[h] = 0
    /\ \E h \in Handles :
          in_seq(h, scored_jobs) /\ relevance_score[h] > 0

\* C17 as claimed: a finished run that selected no posting has sent exactly
\* one message, the no-results message.
C17_NoResultsMessageAlwaysSent ==
    (pc = "END" /\ selected_jobs = <<>>) => kinds_of(sent) = <<"no_jobs">>

\* C17: a finished run that selected no posting has sent exactly one message,
\* the no-results message, when bot token and chat id are configured, and
\* nothing when they are not.
C17_NoResultsMessageWhenConfigured ==
    (pc = "END" /\ selected_jobs = <<>>) =>
        IF telegram = "unconfigured" THEN sent = <<>>
        ELSE kinds_of(sent) = <<"no_jobs">>

\* a finished run that discovered postings, selected none and sent the
\* no-results message
C17_Witness ==
    /\ pc = "END"
    /\ raw_jobs # <<>>
    /\ selected_jobs = <<>>
    /\ telegram = "up"
    /\ Len(sent) = 1
    /\ sent[1].kind = "no_jobs"

\* the positions of `cards` that are the first of their job_id, in order
first_of_their_id(cards) ==
    LET is_first(p) ==
            \A q \in 1..(p - 1) : card_job_id(cards[q]) # card_job_id(cards[p])
        firsts == {p \in 1..Len(cards) : is_first(p)}
        nth(k) == CHOOSE p \in firsts : Cardinality({q \in firsts : q < p}) = k - 1
    IN  [k \in 1..Cardinality(firsts) |-> cards[nth(k)]]

\* C18: no two postings of raw_jobs have the same job_id, and when discovery
\* returns raw_jobs holds, in yield order, the posting of the first card
\* yielded for every job_id, whatever source and query yielded it.
C18_RawJobsUniqueFirstKept ==
    /\ \A i, j \in 1..Len(raw_jobs) :
          job_id_of(raw_jobs[i]) = job_id_of(raw_jobs[j]) => i = j
    /\ pc = "relevance_scoring" =>
          /\ Len(raw_jobs) = Len(first_of_their_id(yielded))
          /\ \A i \in 1..Len(raw_jobs) :
                Listings[raw_jobs[i]].card = first_of_their_id(yielded)[i]

\* discovery has returned: the linkedin card of a posting was yielded before
\* the indeed card of the same title and company, and only it was kept
C18_Witness ==
    /\ pc = "relevance_scoring"
    /\ yielded = <<2, 1>>
    /\ Len(raw_jobs) = 1
    /\ JobOf[raw_jobs[1]].source = "linkedin"

\* C19: a posting that has left discovery has the job_id of every posting,
\* of any source, location, description and enrichment answer, that has its
\* title and its company.
C19_JobIdFromTitleAndCompany ==
    \A i \in 1..Len(raw_jobs) : \A h \in Handles :
        (/\ JobOf[h].title = JobOf[raw_jobs[i]].title
         /\ JobOf[h].company = JobOf[raw_jobs[i]].company)
            => JobOf[h].job_id = JobOf[raw_jobs[i]].job_id

\* discovery has returned an enriched posting that parsed, and the catalogue
\* has a posting of the same title and company from another source, with
\* another location and description and without enrichment
C19_Witness ==
    /\ pc = "relevance_scoring"
    /\ \E i \in 1..Len(filtered_jobs) : \E h \in Handles :
          LET job == JobOf[filtered_jobs[i]]
          IN  /\ job.required_skills # <<>>
              /\ JobOf[h].title = job.title
              /\ JobOf[h].company = job.company
              /\ JobOf[h].source # job.source
              /\ JobOf[h].location # job.location
              /\ JobOf[h].description # job.description
              /\ JobOf[h].required_skills = <<>>

\* C20: once the tracker has returned, application_records has one record
\* per posting of selected_jobs, in the order of selected_jobs, with the
\* job_id, company and title of that posting, whether or not the posting has
\* a resume version or a cover letter; the record of a posting without
\* resume version has resume_version_id "", every other record names the
\* version of its posting.
C20_OneRecordPerSelectedPosting ==
    run_summary.written =>
        /\ Len(application_records) = Len(selected_jobs)
        /\ \A k \in 1..Len(selected_jobs) :
              LET h == selected_jobs[k]
                  rec == application_records[k]
                  of_h == entries_of(resume_versions, h)
              IN  /\ rec.job_id = job_id_of(h)
                  /\ rec.company = JobOf[h].company
                  /\ rec.role = JobOf[h].title
                  /\ of_h = {} => rec.resume_version_id = ""
                  /\ \A i \in of_h :
                        rec.resume_version_id = resume_versions[i].version_id

\* the tracker has returned for two selected postings: the first has no
\* resume version, the second no cover letter
C20_Witness ==
    /\ run_summary.written
    /\ Len(selected_jobs) = 2
    /\ entries_of(resume_versions, selected_jobs[1]) = {}
    /\ entries_of(cover_letters, selected_jobs[1]) # {}
    /\ entries_of(resume_versions, selected_jobs[2]) # {}
    /\ entries_of(cover_letters, selected_jobs[2]) = {}
    /\ application_records[1].resume_version_id = ""
    /\ application_records[2].resume_version_id # ""

\* C27: of the raw postings handed to the conversion (the first 40), one that
\* does not validate as a JobListing is left out of filtered_jobs, the node
\* returns and appends nothing to errors, and every other one is in
\* filtered_jobs, once, in discovery order.
C27_MalformedPostingDropped ==
    entered("job_discovery") =>
        /\ \A i \in 1..min(Len(raw_jobs), EnrichLimit) :
              in_seq(raw_jobs[i], filtered_jobs) <=> JobOf[raw_jobs[i]].valid
        /\ \A i \in 1..Len(filtered_jobs) : in_seq(filtered_jobs[i], raw_jobs)
        /\ no_repeats(filtered_jobs)
        /\ in_order_of(filtered_jobs, raw_jobs)
        /\ pc = "relevance_scoring" => errors = <<>>

\* discovery returned with a posting that does not validate in front of one
\* that does: only the second is in filtered_jobs
C27_Witness ==
    /\ pc = "relevance_scoring"
    /\ Len(raw_jobs) = 2
    /\ ~JobOf[raw_jobs[1]].valid
    /\ filtered_jobs = <<raw_jobs[2]>>
    /\ errors = <<>>

\* C29: the step of the scoring node leaves filtered_jobs as it is, makes
\* scored_jobs hold each posting of filtered_jobs that is not disqualified
\* once and nothing else, and makes selected_jobs the first postings of
\* scored_jobs: no scored posting that is not selected comes before a
\* selected one.
C29_ScoredPermutationSelectedPrefix ==
    [][pc = "relevance_scoring" =>
          /\ filtered_jobs' = filtered_jobs
          /\ no_repeats(scored_jobs')
          /\ Len(scored_jobs') =
                Cardinality({i \in 1..Len(filtered_jobs) : ~Disqualified[filtered_jobs[i]]})
          /\ \A h \in Handles :
                in_seq(h, scored_jobs') <=>
                    (in_seq(h, filtered_jobs) /\ ~Disqualified[h])
          /\ Len(selected_jobs') <= Len(scored_jobs')
          /\ selected_jobs' = SubSeq(scored_jobs', 1, Len(selected_jobs'))]_vars

\* two postings were scored, the sort put the second of filtered_jobs first,
\* and only that one was selected
C29_Witness ==
    /\ scoring_done
    /\ Len(filtered_jobs) = 2
    /\ scored_jobs = <<filtered_jobs[2], filtered_jobs[1]>>
    /\ selected_jobs = <<filtered_jobs[2]>>

\* the job_ids of `records`, in order
job_ids_of(records) == [i \in 1..Len(records) |-> records[i].job_id]

\* the job_ids of the postings `jobs`, in order
ids_of_jobs(jobs) == [i \in 1..Len(jobs) |-> job_id_of(jobs[i])]

\* every posting of selected_jobs has one entry in `outputs` or one error
\* entry of `stage`, not both and not neither; every entry of `outputs` is
\* that of a selected posting, and the entries are in selection order
accounted_once(outputs, stage) ==
    /\ \A k \in 1..Len(selected_jobs) :
          LET h == selected_jobs[k]
          IN  Cardinality(entries_of(outputs, h))
                 + Cardinality(stage_errors(stage, h)) = 1
    /\ \A i \in 1..Len(outputs) :
          in_seq(outputs[i].job_id, ids_of_jobs(selected_jobs))
    /\ in_order_of(job_ids_of(outputs), ids_of_jobs(selected_jobs))

\* C28: once the tailoring node has run, every selected posting has exactly
\* one resume version or exactly one "Resume" error entry, never both and
\* never neither; once the letter node has run the same holds of cover
\* letters and "CoverLetter" entries.  Every version and letter carries the
\* job_id of a selected posting and both lists are in selection order.
C28_EverySelectedPostingAccountedOnce ==
    /\ entered("resume_optimization") => accounted_once(resume_versions, "Resume")
    /\ entered("cover_letter_generation") =>
          accounted_once(cover_letters, "CoverLetter")

\* the letter node has run on two selected postings: the second has a
\* "Resume" entry instead of a version and still got its letter, the first
\* has a version and a "CoverLetter" entry instead of a letter
C28_Witness ==
    /\ pc = "application_tracker"
    /\ Len(selected_jobs) = 2
    /\ tailoring = <<"ok", "throws">>
    /\ letters = <<"throws", "ok">>
    /\ job_ids_of(resume_versions) = <<job_id_of(selected_jobs[1])>>
    /\ job_ids_of(cover_letters) = <<job_id_of(selected_jobs[2])>>
    /\ Len(errors) = 2

\* C25: a step of the scoring node in which no embedding model could be
\* loaded, or in which an embedding call raised, ends in the next node with
\* errors as it was, and with every posting of filtered_jobs that is not
\* disqualified in scored_jobs; a posting whose call raised, or that had no
\* model to ask, carries a score that is at least its keyword score.
C25_EmbeddingFailureHandledLocally ==
    [][(/\ pc = "relevance_scoring"
        /\ \/ ~embeddings'.loaded
           \/ \E k \in 1..Len(embeddings'.answers) : embeddings'.answers[k].raises)
       => /\ pc' = "resume_optimization"
          /\ errors' = errors
          /\ LET qualified == select(filtered_jobs, not_disqualified)
             IN  \A k \in 1..Len(qualified) :
                    /\ in_seq(qualified[k], scored_jobs')
                    /\ (~embeddings'.loaded \/ embeddings'.answers[k].raises) =>
                          relevance_score'[qualified[k]]
                              >= rounded_score(BaseScore[qualified[k]], 0)]_vars

\* the scoring node has returned from a run in which every embedding call
\* raised: both postings are scored and errors is empty
C25_Witness ==
    /\ pc = "resume_optimization"
    /\ embeddings.loaded
    /\ Len(embeddings.answers) = 2
    /\ \A k \in 1..2 : embeddings.answers[k].raises
    /\ Len(scored_jobs) = 2
    /\ \A k \in 1..2 : relevance_score[scored_jobs[k]] > 0
    /\ errors = <<>>

\* the priority terms that are a case-insensitive substring of the
\* description, or of one required or preferred skill, of the posting
terms_in_description_or_skill(job) ==
    {i \in 1..Len(priority_tech) :
        \/ contains(lower(job.description), priority_tech[i])
        \/ \E k \in 1..Len(job.required_skills) :
              contains(lower(job.required_skills[k]), priority_tech[i])
        \/ \E k \in 1..Len(job.preferred_skills) :
              contains(lower(job.preferred_skills[k]), priority_tech[i])}

\* C22: the tech-stack component of a posting is min(25, 3 N) for N the
\* number of priority terms that are a case-insensitive substring of its
\* description or of one of its required or preferred skills; a term found
\* in neither adds nothing.
C22_TechStackCountsTermsInTexts ==
    component_scores # <<>> =>
        component_scores[1].s3 =
            min(25, 3 * Cardinality(terms_in_description_or_skill(scoring_job[1]))) * 100

\* the lowercased experience text, a space, the lowercased description
experience_text(job) ==
    lower(job.experience_required) \o " " \o lower(job.description)

\* the credit of the first tier of `tiers` with a keyword in `text`, or 15
RECURSIVE first_tier_credit(_, _)
first_tier_credit(tiers, text) ==
    IF tiers = <<>> THEN 1500
    ELSE IF any_kw_in(Head(tiers).keywords, text) THEN Head(tiers).credit
    ELSE first_tier_credit(Tail(tiers), text)

\* the tiers as the claim lists them ("entry-level" taken as "entry", and
\* "2+" as "2+ year")
TiersAsListed ==
    << [keywords |-> <<"entry", "intern", "fresher", "graduate", "trainee">>,
        credit |-> 2500],
       [keywords |-> <<"junior", "1-2 year">>, credit |-> 1800],
       [keywords |-> <<"2+ year", "2-3 year">>, credit |-> 800],
       [keywords |-> <<"senior", "lead", "3+">>, credit |-> 0] >>

\* the tiers with every keyword that decides a credit
TiersInFull ==
    << [keywords |-> <<"entry", "intern", "fresher", "graduate", "trainee", "0-1">>,
        credit |-> 2500],
       [keywords |-> <<"junior", "1-2 year", "1+ year">>, credit |-> 1800],
       [keywords |-> <<"2+ year", "2-3 year">>, credit |-> 800],
       [keywords |-> <<"senior", "lead", "3+", "4+", "5+">>, credit |-> 0] >>

\* C23 as claimed: the experience component is the credit of the first tier,
\* in the order 25, 18, 8, 0, one of whose listed keywords is in the
\* lowercased experience text plus description, and 15 when no listed
\* keyword is in it.
C23_ExperienceTiersAsListed ==
    component_scores # <<>> =>
        component_scores[1].s2 =
            first_tier_credit(TiersAsListed, experience_text(scoring_job[1]))

\* C23 amended: the same with the tiers' keywords in full: "0-1" also gives
\* 25, "1+ year" also gives 18, "4+" and "5+" also give 0.
C23_ExperienceTiersFirstMatch ==
    component_scores # <<>> =>
        component_scores[1].s2 =
            first_tier_credit(TiersInFull, experience_text(scoring_job[1]))

\* a posting whose text has a keyword of the 18 tier ("junior") and one of
\* the 0 tier ("3+") was given 18
C23_Witness ==
    /\ component_scores # <<>>
    /\ contains(experience_text(scoring_job[1]), "junior")
    /\ contains(experience_text(scoring_job[1]), "3+")
    /\ component_scores[1].s2 = 1800

\* the entries of the required-skill list that are, letter case aside, a
\* skill of the candidate
entries_matched(job) ==
    {k \in 1..Len(job.required_skills) :
        \E c \in 1..Len(ALL_SKILLS) :
            lower(ALL_SKILLS[c]) = lower(job.required_skills[k])}

\* C24: the skill-overlap component is 20 for a posting with no required
\* skill; otherwise it is 40 times the share of the entries of the required
\* list that equal, letter case aside and as whole strings, a skill of the
\* candidate, to the two decimals the function returns: 0 when no entry
\* matches, 40 when all do.
C24_SkillOverlapIsShareOfRequired ==
    component_scores # <<>> =>
        LET job == scoring_job[1]
            n == Len(job.required_skills)
            matched == Cardinality(entries_matched(job))
            s1 == component_scores[1].s1
        IN  IF n = 0 THEN s1 = 2000
            ELSE /\ 2 * (n * s1 - matched * 4000) <= n
                 /\ 2 * (matched * 4000 - n * s1) <= n
                 /\ matched = 0 => s1 = 0
                 /\ matched = n => s1 = 4000

\* a posting requiring PyTorch, LangChain and SQL was given 26.67: SQL is
\* part of the candidate's MySQL but is not a skill of the candidate
C24_Witness ==
    /\ component_scores # <<>>
    /\ scoring_job[1].required_skills = <<"PyTorch", "LangChain", "SQL">>
    /\ component_scores[1].s1 = 2667

\* no attempt of the call so far answered 200
all_failed == \A i \in 1..Len(attempts) : attempts[i] # "200"

\* C21: a call of _safe_get makes at most 3 attempts; it returns a response
\* exactly when an attempt answered 200, and that attempt is its first such
\* and its last; it returns None exactly after 3 attempts that all failed
\* (by exception or by another status); a call that runs does return.  When
\* it returned None the scraper yields nothing and the next scraper is called.
C21_SafeGetEndsAfterThreeAttempts ==
    /\ [](/\ Len(attempts) <= 3
          /\ resp = "running" => (Len(attempts) < 3 /\ all_failed)
          /\ resp = "response" =>
                /\ attempts # <<>>
                /\ attempts[Len(attempts)] = "200"
                /\ \A i \in 1..(Len(attempts) - 1) : attempts[i] # "200"
          /\ resp = "None" => (Len(attempts) = 3 /\ all_failed))
    /\ [][resp = "None" =>
             /\ yielded' = yielded
             /\ scraper' = scraper + 1
             /\ scraper < Len(SafeGetSources) => resp' = "running"]_vars
    /\ (resp = "running") ~> (resp \in {"response", "None"})

\* the first scraper got None after three failed attempts and yielded
\* nothing, the second got a response and yielded its cards, and the third
\* is running
C21_Witness ==
    /\ scraper = 3
    /\ resp = "running"
    /\ yielded # <<>>
    /\ yielded = page_cards("indeed")

\* the query a raw posting was found under
query_of(h) == Cards[Listings[h].card].title

documents_sent == SubSeq(sent, min(5, Len(selected_jobs)) + 2, Len(sent))

\* C30: with a configured notifier and at least one selected posting the
\* notification stage sends the run summary first, then one detail message
\* for each of the first min(5, n) selected postings, in selection order, and
\* for no other posting, and only then the tracker and report documents; the
\* stage changes no field of the run context.
C30_SummaryDetailsThenDocuments ==
    /\ [](pc = "END" /\ telegram # "unconfigured" /\ selected_jobs # <<>> =>
            LET n == min(5, Len(selected_jobs))
            IN  /\ Len(sent) >= n + 1
                /\ sent[1].kind = "summary"
                /\ \A k \in 1..n :
                      /\ sent[k + 1].kind = "detail"
                      /\ sent[k + 1].job_id = job_id_of(selected_jobs[k])
                /\ kinds_of(documents_sent) \in
                      {<<>>, <<"csv">>, <<"report">>, <<"csv", "report">>}
                /\ entered("application_tracker") /\ tracker_export_path # ""
                      => kinds_of(documents_sent) = <<"csv", "report">>)
    /\ [][pc = "telegram_notifications" =>
              UNCHANGED <<context, relevance_score>>]_vars

C30_Witness ==
    /\ pc = "END"
    /\ telegram = "up"
    /\ Len(selected_jobs) > 5
    /\ Len(sent) = 8
    /\ kinds_of(sent) = <<"summary", "detail", "detail", "detail", "detail",
                          "detail", "csv", "report">>
    /\ sent[6].job_id = job_id_of(selected_jobs[5])

====
